---- MODULE Spec2Model ----
(***************************************************************************)
(* HashcatStatusParser.parse_status_file and the downsampling loop of      *)
(* PasswordCrackingApp._create_figure (password_cracking_curve.py).        *)
(*                                                                         *)
(* A parser object is its constructor arguments; a parse is one call of    *)
(* parse_status_file, whose local variables live in frame[p].  One step of *)
(* the model is one iteration of "for line in f".                          *)
(*                                                                         *)
(* Python strings are sequences of one-character strings, so that          *)
(* str.replace and the f-string of the phase key are computed, and string  *)
(* equality is equality of the characters.  Numbers on the y axis are      *)
(* exact rationals <<numerator, denominator>> in lowest terms: the float   *)
(* (cracked / total) * 100 is a function of the rational cracked / total,  *)
(* so two y values are equal exactly when their rationals are.             *)
(***************************************************************************)
EXTENDS Integers, Sequences, FiniteSets, TLC

VARIABLES
  parsers,   \* parser id -> the HashcatStatusParser object (its settings)
  fs,        \* parser id -> the file its filename names: exists, lines
  frame,     \* parser id -> the locals of its parse_status_file call
  ret,       \* parser id -> what the call gave its caller
  traces     \* parser id -> the curves _create_figure handed to the figure

vars == <<parsers, fs, frame, ret, traces>>

(***************************** bounds **************************************)
MaxLen == 3          \* lines in a file, one parse at a time
MaxPairLen == 2      \* lines in each file of two interleaved parses
MaxExtra == 70       \* points past the downsampling threshold

(***************************** strings *************************************)
AUTOCAT ==
  <<"a","u","t","o","c","a","t","_","n","e","w","_",
    "c","r","a","c","k","e","d","_","p","o","t","f","i","l","e">>
POTFILE == <<"p","o","t","f","i","l","e">>
UNKNOWN == <<"u","n","k","n","o","w","n">>
NONE_STR == <<"N","o","n","e">>
EMPTY_STR == << >>

\* str.replace(old, new): leftmost non-overlapping occurrences, old non-empty
RECURSIVE Replace(_, _, _)
Replace(s, old, new) ==
  IF Len(s) < Len(old) THEN s
  ELSE IF SubSeq(s, 1, Len(old)) = old
       THEN new \o Replace(SubSeq(s, Len(old) + 1, Len(s)), old, new)
       ELSE <<Head(s)>> \o Replace(Tail(s), old, new)

Digit(d) ==
  CASE d = 0 -> "0" [] d = 1 -> "1" [] d = 2 -> "2" [] d = 3 -> "3"
    [] d = 4 -> "4" [] d = 5 -> "5" [] d = 6 -> "6" [] d = 7 -> "7"
    [] d = 8 -> "8" [] d = 9 -> "9"

\* str(n) of a non-negative int
RECURSIVE Decimal(_)
Decimal(n) == IF n < 10 THEN <<Digit(n)>> ELSE Decimal(n \div 10) \o <<Digit(n % 10)>>

(***************************** JSON values *********************************)
Absent == [t |-> "absent"]                 \* the key is not in the object
Null == [t |-> "null"]                     \* JSON null, Python None
JStr(s) == [t |-> "str", v |-> s]
JInt(n) == [t |-> "int", v |-> n]
JArr(a) == [t |-> "arr", v |-> a]
JObj(base, mod) == [t |-> "obj", guess_base |-> base, guess_mod |-> mod]

\* f"{v}"
Format(v) ==
  CASE v.t = "str" -> v.v
    [] v.t = "int" -> Decimal(v.v)
    [] v.t = "null" -> NONE_STR

Ok(v) == [ok |-> TRUE, v |-> v]
Exc(e) == [ok |-> FALSE, exc |-> e]

\* dict.get(key, default)
Get(v, default) == IF v.t = "absent" THEN default ELSE v

\* v[i], i counted from 0
Subscript(v, i) ==
  CASE v.t = "arr" -> IF i < Len(v.v) THEN Ok(v.v[i + 1]) ELSE Exc("IndexError")
    [] v.t = "null" -> Exc("TypeError")
    [] OTHER -> Exc("TypeError")

\* v.get("guess_base", default) / v.get("guess_mod", default) on the guess value
GetBase(v, default) ==
  CASE v.t = "obj" -> Ok(Get(v.guess_base, default))
    [] OTHER -> Exc("AttributeError")

GetMod(v, default) ==
  CASE v.t = "obj" -> Ok(Get(v.guess_mod, default))
    [] OTHER -> Exc("AttributeError")

\* v.replace("autocat_new_cracked_potfile", "potfile")
ReplacePotfile(v) ==
  CASE v.t = "str" -> Ok(Replace(v.v, AUTOCAT, POTFILE))
    [] OTHER -> Exc("AttributeError")

(***************************** numbers *************************************)
RECURSIVE GCD(_, _)
GCD(a, b) == IF b = 0 THEN a ELSE GCD(b, a % b)

Rational(n, d) == LET g == GCD(n, d) IN <<n \div g, d \div g>>

Num(n) == <<n, 1>>

\* (cracked / total) * 100
Percentage(cracked, total) == Rational(100 * cracked, total)

(***************************** lines of a file *****************************)
\* A line that does not start with "{" once stripped (blank lines included).
TextLine == [kind |-> "text"]
\* A line that starts with "{" and that json.loads rejects (JSONDecodeError).
PartialLine == [kind |-> "partial"]
\* A line json.loads decodes to an object; a field is Absent when its key is not there.
Record(progress, recovered_hashes, guess, time_start) ==
  [kind |-> "json", progress |-> progress, recovered_hashes |-> recovered_hashes,
   guess |-> guess, time_start |-> time_start]

(***************************** parse_status_file ***************************)
\* NewLocals, had the anchor (0, 0) been put in a curve before any record is read.
NewLocalsAnchored ==
  [guesses |-> 0, current_identifier |-> EMPTY_STR, elapsed_seconds |-> 0,
   curves_x |-> <<<<0>>>>, curves_y |-> <<<<Num(0)>>>>, label_list |-> << >>]

\* The locals a call starts with.
NewLocals ==
  [guesses |-> 0, current_identifier |-> EMPTY_STR, elapsed_seconds |-> 0,
   curves_x |-> << >>, curves_y |-> << >>, label_list |-> << >>]

NewFrame == [pc |-> "call", pos |-> 0, exc |-> "", loc |-> NewLocals]

\* Scope, had the accumulators and the curve lists been shared by the calls.
SharedScope(p) == 1

\* The frame that holds the variables of call p: they are locals of the call.
Scope(p) == p

\* AddProgress, had += been =.
SetProgress(loc, progress) == [loc EXCEPT !.guesses = progress]

\* guesses += progress
AddProgress(loc, progress) == [loc EXCEPT !.guesses = @ + progress]

\* total = recovered[1] if recovered[1] > 0 else 1
Total(n) == IF n > 0 THEN n ELSE 1

XValue(self, loc) ==
  IF self.x_axis_type = "time" THEN loc.elapsed_seconds ELSE loc.guesses

YValue(self, cracked, total) ==
  IF self.y_axis_type = "count" THEN Num(cracked) ELSE Percentage(cracked, total)

\* Key, had guess_mod been left out of it.
KeyWithoutMod(time_start, guess_base, guess_mod) ==
  <<Format(time_start) \o <<"/">> \o guess_base, Null>>

\* key = (f"{time_start}/{guess_base}", guess_mod)
Key(time_start, guess_base, guess_mod) ==
  <<Format(time_start) \o <<"/">> \o guess_base, guess_mod>>

Last(s) == s[Len(s)]

\* The first curve: the anchor 0, then the point.
FirstCurve(curves, v) == Append(curves, <<0, v>>)
FirstCurveY(curves, v) == Append(curves, <<Num(0), v>>)

\* NextCurve, had the new curve started at the new point.
NextCurveUnstitched(curves, v) == Append(curves, <<v>>)

\* A later curve: the last point of the curve before it, then the point.
NextCurve(curves, v) == Append(curves, <<Last(Last(curves)), v>>)

\* curves[-1].append(v)
Continue(curves, v) == [curves EXCEPT ![Len(curves)] = Append(@, v)]

\* AddPoint, had a phase change closed the previous curve with the new point and
\* started the new curve at it.
AddPointClosing(loc, key, x_value, y_value) ==
  IF key # loc.current_identifier
  THEN IF loc.current_identifier # EMPTY_STR
       THEN [loc EXCEPT !.curves_x = Append(Continue(@, x_value), <<x_value>>),
                        !.curves_y = Append(Continue(@, y_value), <<y_value>>),
                        !.current_identifier = key,
                        !.label_list = Append(@, key)]
       ELSE [loc EXCEPT !.curves_x = FirstCurve(@, x_value),
                        !.curves_y = FirstCurveY(@, y_value),
                        !.current_identifier = key,
                        !.label_list = Append(@, key)]
  ELSE [loc EXCEPT !.curves_x = Continue(@, x_value),
                   !.curves_y = Continue(@, y_value)]

\* if key != current_identifier: ... else: ...
AddPoint(loc, key, x_value, y_value) ==
  IF key # loc.current_identifier
  THEN IF loc.current_identifier # EMPTY_STR
       THEN [loc EXCEPT !.curves_x = NextCurve(@, x_value),
                        !.curves_y = NextCurve(@, y_value),
                        !.current_identifier = key,
                        !.label_list = Append(@, key)]
       ELSE [loc EXCEPT !.curves_x = FirstCurve(@, x_value),
                        !.curves_y = FirstCurveY(@, y_value),
                        !.current_identifier = key,
                        !.label_list = Append(@, key)]
  ELSE [loc EXCEPT !.curves_x = Continue(@, x_value),
                   !.curves_y = Continue(@, y_value)]

\* Tick, had the counter advanced in time mode alone.
TickInTimeMode(self, loc) ==
  IF self.x_axis_type = "time" THEN [loc EXCEPT !.elapsed_seconds = @ + self.status_timer]
  ELSE loc

\* elapsed_seconds += self.status_timer
Tick(self, loc) == [loc EXCEPT !.elapsed_seconds = @ + self.status_timer]

\* An exception other than JSONDecodeError leaves the loop and the call.
Raised(loc, e) == [pc |-> "raised", exc |-> e.exc, loc |-> loc]
Looping(loc) == [pc |-> "loop", exc |-> "", loc |-> loc]

\* The body of the try block for a decoded object.
ProcessRecord(self, loc, data) ==
  LET progress == Subscript(Get(data.progress, JArr(<<0>>)), 0) IN
  IF ~progress.ok THEN Raised(loc, progress) ELSE
  LET loc1 == AddProgress(loc, progress.v)
      recovered == Get(data.recovered_hashes, JArr(<<0, 0>>))
      cracked == Subscript(recovered, 0) IN
  IF ~cracked.ok THEN Raised(loc1, cracked) ELSE
  LET rec1 == Subscript(recovered, 1) IN
  IF ~rec1.ok THEN Raised(loc1, rec1) ELSE
  LET x_value == XValue(self, loc1)
      y_value == YValue(self, cracked.v, Total(rec1.v))
      guess == Get(data.guess, JObj(Absent, Absent))
      base == GetBase(guess, JStr(UNKNOWN)) IN
  IF ~base.ok THEN Raised(loc1, base) ELSE
  LET guess_base == ReplacePotfile(base.v) IN
  IF ~guess_base.ok THEN Raised(loc1, guess_base) ELSE
  LET guess_mod == GetMod(guess, Null).v
      time_start == Get(data.time_start, JStr(UNKNOWN))
      key == Key(time_start, guess_base.v, guess_mod)
  IN Looping(Tick(self, AddPoint(loc1, key, x_value, y_value)))

\* SkipLine, had the counter been advanced before the line is looked at.
SkipLineTicks(self, loc) == [loc EXCEPT !.elapsed_seconds = @ + self.status_timer]

\* if not line.startswith("{"): continue / except json.JSONDecodeError: continue
SkipLine(self, loc) == loc

\* One iteration of "for line in f".
ProcessLine(self, loc, line) ==
  IF line.kind = "json" THEN ProcessRecord(self, loc, line)
  ELSE Looping(SkipLine(self, loc))

\* return curves_x, curves_y, label_list
Returned(loc) ==
  [status |-> "returned", curves_x |-> loc.curves_x, curves_y |-> loc.curves_y,
   label_list |-> loc.label_list]
Escaped(e) == [status |-> "raised", exc |-> e]
Pending == [status |-> "pending"]

(***************************** _create_figure ******************************)
Threshold == 1000
sample_rate == 60

\* c[::n]
Stride(c, n) == [i \in 1 .. ((Len(c) + n - 1) \div n) |-> c[(i - 1) * n + 1]]

\* Downsample, had the last point not been appended.
DownsampleStrideOnly(c) == IF Len(c) > Threshold THEN Stride(c, sample_rate) ELSE c

\* The downsampling of one curve (x or y): lines 253-264.
Downsample(c) ==
  IF Len(c) > Threshold
  THEN LET sampled == Stride(c, sample_rate)
       IN IF (Len(c) - 1) % sample_rate # 0 THEN Append(sampled, Last(c)) ELSE sampled
  ELSE c

NoTraces == [status |-> "none"]
Traced(r) ==
  [status |-> "traced",
   x |-> [k \in 1 .. Len(r.curves_x) |-> Downsample(r.curves_x[k])],
   y |-> [k \in 1 .. Len(r.curves_y) |-> Downsample(r.curves_y[k])]]

(***************************** inputs **************************************)
D1 == <<"d", "1">>
XD1 == <<"x", "/", "d", "1">>
RULE == <<"r">>
T7X == <<"7", "/", "x">>

R1 == Record(JArr(<<2>>), JArr(<<1, 4>>), JObj(JStr(XD1), Absent), JInt(7))
\* R1 with a guess_mod: nothing else differs
R2 == Record(JArr(<<2>>), JArr(<<1, 4>>), JObj(JStr(XD1), JStr(RULE)), JInt(7))
R3 == Record(JArr(<<3, 9>>), JArr(<<5, 0>>), JObj(JStr(AUTOCAT), Null), JInt(7))
R4 == Record(Absent, JArr(<<2, 4>>), JObj(JStr(POTFILE), Absent), JInt(7))
\* time_start "7/x" with guess_base "d1": the same f-string as R1's 7 with "x/d1"
R5 == Record(JArr(<<1>>), JArr(<<3, 4>>), JObj(JStr(D1), Absent), JStr(T7X))
\* the object {}
R6 == Record(Absent, Absent, Absent, Absent)
R7 == Record(JArr(<<1>>), JArr(<<1, 4>>), JObj(Absent, JStr(RULE)), Null)
\* objects whose fields are null, empty or short
E1 == Record(JArr(<< >>), JArr(<<1, 4>>), JObj(JStr(XD1), Absent), JInt(7))
E2 == Record(JArr(<<2>>), Null, JObj(JStr(XD1), Absent), JInt(7))
E3 == Record(JArr(<<2>>), JArr(<<1>>), JObj(JStr(XD1), Absent), JInt(7))
E4 == Record(JArr(<<2>>), JArr(<<1, 4>>), Null, JInt(7))
E5 == Record(JArr(<<2>>), JArr(<<1, 4>>), JObj(Null, Absent), JInt(7))

GoodRecords == {R1, R2, R3, R4, R5, R6, R7}
BadRecords == {E1, E2, E3, E4, E5}
\* the lines of the files of Spec
Lines == {TextLine, PartialLine, R1, R2, R3, R4, R5, R6, E2}
\* the lines of the files of SpecFields: every record, good and bad
FieldLines == GoodRecords \cup BadRecords
\* the lines of the files of SpecSkip
SkipLines == {TextLine, PartialLine, R1, R2, E2}
\* the lines of the two files of SpecPair
PairLines(p) == IF p = 1 THEN {TextLine, R1, R2} ELSE {R2, R5, E2}

Timers == {1, 2}
Settings ==
  [x_axis_type : {"guesses", "time"}, y_axis_type : {"percentage", "count"},
   status_timer : Timers]

SeqsUpTo(S, n) == UNION {[1 .. k -> S] : k \in 0 .. n}
Missing == [exists |-> FALSE, lines |-> << >>]
File(lines) == [exists |-> TRUE, lines |-> lines]
Files(S, n) == {Missing} \cup {File(l) : l \in SeqsUpTo(S, n)}

(***************************** actions *************************************)
Parsers == DOMAIN parsers

\* Lines 30-40: the call, up to the loop.
Call(p) ==
  /\ frame[p].pc = "call"
  /\ IF ~fs[p].exists
     THEN /\ frame' = [frame EXCEPT ![p].pc = "done"]
          /\ ret' = [ret EXCEPT ![p] = Returned(NewLocals)]
     ELSE /\ frame' = [frame EXCEPT ![Scope(p)].loc = NewLocals, ![p].pc = "loop"]
          /\ ret' = ret
  /\ UNCHANGED <<parsers, fs, traces>>

\* Lines 43-100: one iteration of the loop over the lines.
Line(p) ==
  /\ frame[p].pc = "loop"
  /\ frame[p].pos < Len(fs[p].lines)
  /\ LET r == ProcessLine(parsers[p], frame[Scope(p)].loc, fs[p].lines[frame[p].pos + 1])
     IN /\ frame' = [frame EXCEPT ![Scope(p)].loc = r.loc,
                                  ![p].pc = r.pc,
                                  ![p].exc = r.exc,
                                  ![p].pos = @ + 1]
        /\ ret' = IF r.pc = "raised" THEN [ret EXCEPT ![p] = Escaped(r.exc)] ELSE ret
  /\ UNCHANGED <<parsers, fs, traces>>

\* Line 102: the loop is over.
Return(p) ==
  /\ frame[p].pc = "loop"
  /\ frame[p].pos = Len(fs[p].lines)
  /\ frame' = [frame EXCEPT ![p].pc = "done"]
  /\ ret' = [ret EXCEPT ![p] = Returned(frame[Scope(p)].loc)]
  /\ UNCHANGED <<parsers, fs, traces>>

\* Lines 247-264: _create_figure takes the curves and downsamples each.
Figure(p) ==
  /\ ret[p].status = "returned"
  /\ traces[p].status = "none"
  /\ traces' = [traces EXCEPT ![p] = Traced(ret[p])]
  /\ UNCHANGED <<parsers, fs, frame, ret>>

Fresh(P) ==
  /\ frame = [p \in P |-> NewFrame]
  /\ ret = [p \in P |-> Pending]
  /\ traces = [p \in P |-> NoTraces]

\* One parser, one file.
Init ==
  /\ parsers \in [{1} -> Settings]
  /\ fs \in [{1} -> Files(Lines, MaxLen)]
  /\ Fresh({1})

Next ==
  \/ \E p \in Parsers : Call(p)
  \/ \E p \in Parsers : Line(p)
  \/ \E p \in Parsers : Return(p)
  \/ \E p \in Parsers : Figure(p)

Spec == Init /\ [][Next]_vars

\* One parser, one short file of records whose fields are absent, null, empty or short.
InitFields ==
  /\ parsers \in [{1} -> Settings]
  /\ fs \in [{1} -> Files(FieldLines, MaxPairLen)]
  /\ Fresh({1})

SpecFields == InitFields /\ [][Next]_vars

\* str.strip, startswith("{") and json.loads decide which lines reach the try body.
IsSkipped(line) == line.kind # "json"
Decodable(lines) == SelectSeq(lines, LAMBDA l : ~IsSkipped(l))

\* Two parsers with the same settings: file 2 is file 1 without its skipped lines.
InitSkip ==
  /\ \E s \in Settings : parsers = [p \in {1, 2} |-> s]
  /\ \E f \in Files(SkipLines, MaxLen) :
       fs = [p \in {1, 2} |-> IF p = 1 THEN f ELSE [f EXCEPT !.lines = Decodable(@)]]
  /\ Fresh({1, 2})

SpecSkip == InitSkip /\ [][Next]_vars

\* The parsers update_parsers builds: one per file, all with the app's settings,
\* status_timer being the app's 1.  Their calls are interleaved line by line.
AppSettings == {s \in Settings : s.status_timer = 1}

InitPair ==
  /\ \E s \in AppSettings : parsers = [p \in {1, 2} |-> s]
  /\ \E f \in Files(PairLines(1), MaxPairLen), g \in Files(PairLines(2), MaxPairLen) :
       fs = [p \in {1, 2} |-> IF p = 1 THEN f ELSE g]
  /\ Fresh({1, 2})

SpecPair == InitPair /\ [][Next]_vars

(***************************** properties **********************************)
Loc(p) == frame[Scope(p)].loc
Finished(p) == frame[p].pc \in {"done", "raised"}
HasReturned(p) == ret[p].status = "returned"

\* The decodable records among the lines call p has gone through.
Seen(p) == Decodable(SubSeq(fs[p].lines, 1, frame[p].pos))

\* The fields of a record as spec section 6 gives them, defaults applied.
TimeStartOf(r) == IF r.time_start.t = "absent" THEN JStr(UNKNOWN) ELSE r.time_start
BaseOf(r) ==
  IF r.guess.t = "absent" \/ r.guess.guess_base.t = "absent" THEN UNKNOWN
  ELSE r.guess.guess_base.v
ModOf(r) ==
  IF r.guess.t = "absent" \/ r.guess.guess_mod.t = "absent" THEN Null
  ELSE r.guess.guess_mod
ProgressOf(r) == IF r.progress.t = "absent" THEN 0 ELSE r.progress.v[1]
CrackedOf(r) == IF r.recovered_hashes.t = "absent" THEN 0 ELSE r.recovered_hashes.v[1]
TotalOf(r) ==
  IF r.recovered_hashes.t = "absent" \/ r.recovered_hashes.v[2] <= 0 THEN 1
  ELSE r.recovered_hashes.v[2]
Normalized(base) == Replace(base, AUTOCAT, POTFILE)

SameValue(a, b) == a.t = b.t /\ (a.t \in {"null", "absent"} \/ a.v = b.v)

\* The number of maximal runs of consecutive records that Same relates.
Runs(records, Same(_, _)) ==
  Cardinality({i \in 1 .. Len(records) : i = 1 \/ ~Same(records[i - 1], records[i])})

\* phase_identifier: the pair (time_start, guess_base normalized), guess_mod left out
SamePhaseIdentifier(a, b) ==
  /\ SameValue(TimeStartOf(a), TimeStartOf(b))
  /\ Normalized(BaseOf(a)) = Normalized(BaseOf(b))

\* The label of a record: the text "<time_start>/<guess_base normalized>", and guess_mod
LabelText(r) == Format(TimeStartOf(r)) \o <<"/">> \o Normalized(BaseOf(r))
SameLabel(a, b) == LabelText(a) = LabelText(b) /\ SameValue(ModOf(a), ModOf(b))

\* C1 as claimed: the number of curves returned is the number of maximal runs of
\* consecutive decodable records with the same (time_start, normalized guess_base),
\* guess_mod not being part of what is compared.
C1_CurvesPerPhaseIdentifier ==
  \A p \in Parsers :
    HasReturned(p) =>
      Len(ret[p].curves_x) = Runs(Decodable(fs[p].lines), SamePhaseIdentifier)

\* C1 as amended: the number of curves returned (of x lists, of y lists and of labels)
\* is the number of maximal runs of consecutive decodable records with the same label,
\* the label being the text "<time_start>/<normalized guess_base>" together with
\* guess_mod.
C1_CurvesPerLabel ==
  \A p \in Parsers :
    HasReturned(p) =>
      LET n == Runs(Decodable(fs[p].lines), SameLabel)
      IN /\ Len(ret[p].curves_x) = n
         /\ Len(ret[p].curves_y) = n
         /\ Len(ret[p].label_list) = n

\* Two records that differ in guess_mod alone, then a third of the same label as the
\* second, have been parsed and returned.
C1_Witness ==
  /\ fs[1].lines = <<R1, R2, R2>>
  /\ HasReturned(1)
  /\ Len(ret[1].curves_x) = 2

\* C2: in what parse_status_file returns, the last point of each curve but the last
\* is the first point of the curve after it, in x and in y.
C2_StitchingContinuity ==
  \A p \in Parsers :
    HasReturned(p) =>
      \A k \in 1 .. Len(ret[p].curves_x) - 1 :
        /\ Last(ret[p].curves_x[k]) = ret[p].curves_x[k + 1][1]
        /\ Last(ret[p].curves_y[k]) = ret[p].curves_y[k + 1][1]

\* Three curves have been returned, on the time axis with counts.
C2_Witness ==
  /\ HasReturned(1)
  /\ Len(ret[1].curves_x) = 3
  /\ parsers[1].x_axis_type = "time"
  /\ parsers[1].y_axis_type = "count"
  /\ ret[1].curves_x[3][1] # ret[1].curves_x[3][2]

\* The step in which call p goes through a decodable record whose label differs from
\* the label of the curve being built, some curve being built already.
PhaseChange(p) ==
  /\ frame[p].pc = "loop"
  /\ frame'[p].pc = "loop"
  /\ frame'[p].pos = frame[p].pos + 1
  /\ ~IsSkipped(fs[p].lines[frame'[p].pos])
  /\ Len(Seen(p)) >= 1
  /\ ~SameLabel(Last(Seen(p)), fs[p].lines[frame'[p].pos])

\* The (x, y) of the record call p goes through in this step.
PointX(p) ==
  IF parsers[p].x_axis_type = "time" THEN Loc(p).elapsed_seconds ELSE Loc(p).guesses'
PointY(p) ==
  LET r == fs[p].lines[frame'[p].pos]
  IN IF parsers[p].y_axis_type = "count" THEN Num(CrackedOf(r))
     ELSE Rational(100 * CrackedOf(r), TotalOf(r))

\* C10 as claimed: at a phase change the previous curve grows by one point, the new
\* record's (x, y), and the new curve starts with that same (x, y).
C10_ClosesPreviousCurve ==
  [][\A p \in Parsers :
       PhaseChange(p) =>
         LET k == Len(Loc(p).curves_x)
             cx == Loc(p).curves_x'
             cy == Loc(p).curves_y'
         IN /\ Len(cx) = k + 1
            /\ Len(cx[k]) = Len(Loc(p).curves_x[k]) + 1
            /\ Last(cx[k]) = PointX(p) /\ cx[k + 1][1] = PointX(p)
            /\ Last(cy[k]) = PointY(p) /\ cy[k + 1][1] = PointY(p)]_vars

\* C10 as amended: at a phase change every curve built so far is left as it is, and
\* one curve is added, of two points: the last point of the previous curve, then the
\* new record's (x, y).
C10_StartsAtPreviousEnd ==
  [][\A p \in Parsers :
       PhaseChange(p) =>
         LET k == Len(Loc(p).curves_x)
             cx == Loc(p).curves_x'
             cy == Loc(p).curves_y'
         IN /\ Len(cx) = k + 1 /\ Len(cy) = k + 1
            /\ SubSeq(cx, 1, k) = Loc(p).curves_x
            /\ SubSeq(cy, 1, k) = Loc(p).curves_y
            /\ cx[k + 1] = <<Last(Loc(p).curves_x[k]), PointX(p)>>
            /\ cy[k + 1] = <<Last(Loc(p).curves_y[k]), PointY(p)>>]_vars

\* A phase change has happened: the second curve starts where the first ends, and
\* goes on to another point.
C10_Witness ==
  /\ fs[1].lines = <<R1, R3>>
  /\ frame[1].pc = "loop"
  /\ frame[1].pos = 2
  /\ Len(Loc(1).curves_x) = 2
  /\ Loc(1).curves_x[2] = <<2, 5>>

BothFinished == \A p \in Parsers : Finished(p)

\* C3: a parse of a file and a parse of the same file without its skipped lines hold
\* the same locals (guesses, elapsed_seconds, curves, labels) whenever they have gone
\* through the same decodable records, and end the same way with the same result.
C3_SkippedLinesChangeNothing ==
  /\ Len(Seen(1)) = frame[2].pos => Loc(1) = Loc(2)
  /\ BothFinished => ret[1] = ret[2]

\* Both parses have returned two curves, the first file having a partial line and a
\* text line around its records.
C3_Witness ==
  /\ fs[1].lines = <<R1, PartialLine, R2>>
  /\ fs[2].lines = <<R1, R2>>
  /\ HasReturned(1) /\ HasReturned(2)
  /\ Len(ret[1].curves_x) = 2

\* C4: no exception leaves parse_status_file, whatever the fields of the decoded
\* objects are.
C4_NoExceptionEscapes ==
  \A p \in Parsers : frame[p].pc # "raised" /\ ret[p].status # "raised"

Empty == [status |-> "returned", curves_x |-> << >>, curves_y |-> << >>, label_list |-> << >>]

\* C5: on a file that is missing, or that has no decodable record, the call raises
\* nothing and what it returns is ([], [], []).
C5_NothingToParse ==
  \A p \in Parsers :
    (~fs[p].exists \/ Decodable(fs[p].lines) = << >>) =>
      /\ frame[p].pc # "raised"
      /\ frame[p].pc = "done" => ret[p] = Empty

\* The call has returned on a file of skipped lines alone.
C5_Witness ==
  /\ fs[1].lines = <<TextLine, PartialLine, TextLine>>
  /\ frame[1].pc = "done"
  /\ ret[1] = Empty

RECURSIVE Sum(_)
Sum(s) == IF s = << >> THEN 0 ELSE Head(s) + Sum(Tail(s))

\* The x of the points the records gave, in order: every point but the first of
\* each curve.
RECURSIVE Emitted(_)
Emitted(curves) == IF curves = << >> THEN << >> ELSE Tail(Head(curves)) \o Emitted(Tail(curves))

ProgressSeen(p) == [i \in 1 .. Len(Seen(p)) |-> ProgressOf(Seen(p)[i])]

\* C6: after n decodable records guesses is the sum of their progress[0] (0 when
\* progress is absent); a step never lowers it; in guesses mode the x of the point
\* of the n-th record is the sum over the first n.
C6_GuessesIsTheSum ==
  [][\A p \in Parsers :
       /\ Loc(p).guesses' >= Loc(p).guesses
       /\ frame'[p].pc \in {"loop", "done"} =>
            /\ Loc(p).guesses' = Sum(ProgressSeen(p)')
            /\ parsers[p].x_axis_type = "guesses" =>
                 Emitted(Loc(p).curves_x') =
                   [n \in 1 .. Len(Seen(p)') |-> Sum(SubSeq(ProgressSeen(p)', 1, n))]]_vars

\* Three records, one without progress, have been summed on the guesses axis.
C6_Witness ==
  /\ fs[1].lines = <<R1, R4, R3>>
  /\ parsers[1].x_axis_type = "guesses"
  /\ frame[1].pc = "done"
  /\ ret[1].curves_x = <<<<0, 2>>, <<2, 2, 5>>>>

RECURSIVE Rest(_, _, _)
Rest(self, loc, lines) ==
  IF lines = << >> THEN Returned(loc)
  ELSE LET r == ProcessLine(self, loc, Head(lines))
       IN IF r.pc = "raised" THEN Escaped(r.exc) ELSE Rest(self, r.loc, Tail(lines))

Alone(p) == IF ~fs[p].exists THEN Empty ELSE Rest(parsers[p], NewLocals, fs[p].lines)

\* C9: however the steps of two calls interleave, a call that has ended has given
\* what it gives when run on its own, and a call that has not ended has given nothing.
C9_CallsDoNotInteract ==
  \A p \in Parsers :
    IF Finished(p) THEN ret[p] = Alone(p) ELSE ret[p] = Pending

\* Call 1 has returned two curves while call 2 is in the middle of its file.
C9_Witness ==
  /\ fs[1].lines = <<R1, R2>>
  /\ fs[2].lines = <<R5, R2>>
  /\ HasReturned(1)
  /\ Len(ret[1].curves_x) = 2
  /\ frame[2].pc = "loop"
  /\ frame[2].pos = 1

(***************************** long curves **********************************)
\* What a call leaves behind on a file of n lines R1: one curve of n + 1 points.
LongLocals(self, n) ==
  [guesses |-> 2 * n,
   current_identifier |-> Key(JInt(7), XD1, Null),
   elapsed_seconds |-> n * self.status_timer,
   curves_x |-> <<[i \in 1 .. n + 1 |->
                    IF i = 1 THEN 0
                    ELSE IF self.x_axis_type = "time" THEN (i - 2) * self.status_timer
                    ELSE 2 * (i - 1)]>>,
   curves_y |-> <<[i \in 1 .. n + 1 |->
                    IF i = 1 THEN Num(0) ELSE YValue(self, 1, 4)]>>,
   label_list |-> <<Key(JInt(7), XD1, Null)>>]

\* LongLocals is what the steps of the call compute (checked under Spec, n <= MaxLen).
LongLocalsAreParsed ==
  \A p \in Parsers :
    (frame[p].pc = "done" /\ fs[p].exists /\ fs[p].lines # << >>
       /\ \A i \in 1 .. Len(fs[p].lines) : fs[p].lines[i] = R1) =>
      Loc(p) = LongLocals(parsers[p], Len(fs[p].lines))

\* One parser whose call has returned one curve of about Threshold points.
InitDown ==
  /\ \E s \in AppSettings : parsers = [p \in {1} |-> s]
  /\ \E n \in (Threshold - MaxExtra) .. (Threshold + MaxExtra) :
       /\ fs = [p \in {1} |-> File([i \in 1 .. n |-> R1])]
       /\ frame = [p \in {1} |->
                    [pc |-> "done", pos |-> n, exc |-> "", loc |-> LongLocals(parsers[p], n)]]
       /\ ret = [p \in {1} |-> Returned(LongLocals(parsers[p], n))]
  /\ traces = [p \in {1} |-> NoTraces]

NextDown == \E p \in Parsers : Figure(p)

SpecDown == InitDown /\ [][NextDown]_vars

\* C8: a curve of more than 1000 points ends, once downsampled, with the (x, y) it
\* ended with before, and the points kept are those at the multiples of 60 and the
\* last one, each once.
C8_LastPointKept ==
  \A p \in Parsers :
    traces[p].status = "traced" =>
      \A k \in 1 .. Len(ret[p].curves_x) :
        LET cx == ret[p].curves_x[k]
            cy == ret[p].curves_y[k]
            kept == {i \in 0 .. Len(cx) - 1 : i % sample_rate = 0 \/ i = Len(cx) - 1}
        IN Len(cx) > Threshold =>
             /\ Last(traces[p].x[k]) = Last(cx)
             /\ Last(traces[p].y[k]) = Last(cy)
             /\ Len(traces[p].x[k]) = Cardinality(kept)
             /\ Len(traces[p].y[k]) = Cardinality(kept)

\* A curve of 1002 points, whose last index 1001 the stride of 60 misses, has been
\* downsampled.
C8_Witness ==
  /\ traces[1].status = "traced"
  /\ Len(ret[1].curves_x[1]) = Threshold + 2
  /\ Len(traces[1].x[1]) = 18
  /\ Last(traces[1].x[1]) = Last(ret[1].curves_x[1])

====
